---- MODULE Spec2Model ----
(***************************************************************************)
(* The Employee Playbook: tier/entitlement model (assets/accessControl.js), *)
(* gating presentation layer (assets/authUI.js) and the static sign-in      *)
(* page script (assets/auth.js).                                            *)
(*                                                                          *)
(* Conventions of the model                                                 *)
(*  - a JavaScript object is a function from its present keys to values;    *)
(*    a key that is absent is not in the DOMAIN;                            *)
(*  - NULL stands for null/undefined in a string-valued slot; identifiers   *)
(*    (tiers, feature keys, ids) are non-empty strings, so a slot is        *)
(*    truthy exactly when it is not NULL;                                   *)
(*  - a path is the sequence of its characters, so that startsWith and      *)
(*    length are the character-level operations of the source.              *)
(***************************************************************************)
EXTENDS Integers, Sequences, FiniteSets, TLC

VARIABLES call, ret, localStorage, lastWrite, got,
          location, href, guard, guardCall, handlers, navLog

entVars == <<call, ret>>
storeVars == <<localStorage, lastWrite, got>>
pageVars == <<location, href, guard, guardCall>>
authVars == <<handlers, navLog>>
vars == <<call, ret, localStorage, lastWrite, got,
          location, href, guard, guardCall, handlers, navLog>>

NULL == "<null>"

\* the user value null / undefined (no user)
NoUser == [null |-> TRUE]

Truthy(v) == v /= NULL

\* getStoredUser not called since the last write
NotRead == [kind |-> "none", value |-> NoUser]

\* window.location.href not assigned: no navigation under way
NoNav == <<>>

\* guardPageAccess not called on this page so far
NoGuardCall == [pathname |-> <<>>, user |-> NoUser, enforceRoutePolicy |-> TRUE]

\* the page of the entitlement and cache specifications: any page, unguarded
IdlePage ==
    /\ location = [pathname |-> <<"/">>, search |-> <<>>]
    /\ href = NoNav
    /\ guard = "unchecked"
    /\ guardCall = NoGuardCall
    /\ handlers = <<>>
    /\ navLog = <<>>

\* no setStoredUser / clearStoredUser call so far
NoWrite == [op |-> "none", user |-> NoUser]

(***************************************************************************)
(* Canonical tiers, features, default entitlements, route policy            *)
(***************************************************************************)
TIERS == [FREE |-> "free", CORE |-> "core", EDGE |-> "edge"]

TierValues == {TIERS.FREE, TIERS.CORE, TIERS.EDGE}

FEATURES ==
    [DOWNLOADS |-> "downloads",
     SAVE_TO_MY_PLAYBOOK |-> "save_to_my_playbook",
     SEARCH |-> "search",
     DARK_MODE |-> "dark_mode",
     TEMPLATE_BANK |-> "template_bank",
     SCRIPT_LIBRARY |-> "script_library",
     SITUATION_SIMULATOR |-> "situation_simulator",
     STRATEGY_JOURNAL |-> "strategy_journal",
     VOICE_TO_TEXT_JOURNAL |-> "voice_to_text_journal",
     EDGE_BRIEFING |-> "edge_briefing",
     COACH_AI |-> "coach_ai",
     ADVANCED_TEMPLATE_BANK |-> "advanced_template_bank",
     OFFICE_POLITICS_MAPPING |-> "office_politics_mapping",
     EXIT_AND_REPUTATION_PLAN |-> "exit_and_reputation_plan"]

DEFAULT_ENTITLEMENTS_EdgeLacksJournal ==
    [free |-> {FEATURES.DARK_MODE, FEATURES.SEARCH, FEATURES.DOWNLOADS},
     core |-> {FEATURES.DARK_MODE, FEATURES.SEARCH, FEATURES.DOWNLOADS,
               FEATURES.SAVE_TO_MY_PLAYBOOK, FEATURES.TEMPLATE_BANK,
               FEATURES.SCRIPT_LIBRARY, FEATURES.STRATEGY_JOURNAL},
     edge |-> {FEATURES.DARK_MODE, FEATURES.SEARCH, FEATURES.DOWNLOADS,
               FEATURES.SAVE_TO_MY_PLAYBOOK, FEATURES.TEMPLATE_BANK,
               FEATURES.SCRIPT_LIBRARY, FEATURES.SITUATION_SIMULATOR,
               FEATURES.VOICE_TO_TEXT_JOURNAL,
               FEATURES.EDGE_BRIEFING, FEATURES.COACH_AI,
               FEATURES.ADVANCED_TEMPLATE_BANK,
               FEATURES.OFFICE_POLITICS_MAPPING,
               FEATURES.EXIT_AND_REPUTATION_PLAN}]

DEFAULT_ENTITLEMENTS ==
    [free |-> {FEATURES.DARK_MODE, FEATURES.SEARCH, FEATURES.DOWNLOADS},
     core |-> {FEATURES.DARK_MODE, FEATURES.SEARCH, FEATURES.DOWNLOADS,
               FEATURES.SAVE_TO_MY_PLAYBOOK, FEATURES.TEMPLATE_BANK,
               FEATURES.SCRIPT_LIBRARY, FEATURES.STRATEGY_JOURNAL},
     edge |-> {FEATURES.DARK_MODE, FEATURES.SEARCH, FEATURES.DOWNLOADS,
               FEATURES.SAVE_TO_MY_PLAYBOOK, FEATURES.TEMPLATE_BANK,
               FEATURES.SCRIPT_LIBRARY, FEATURES.SITUATION_SIMULATOR,
               FEATURES.STRATEGY_JOURNAL, FEATURES.VOICE_TO_TEXT_JOURNAL,
               FEATURES.EDGE_BRIEFING, FEATURES.COACH_AI,
               FEATURES.ADVANCED_TEMPLATE_BANK,
               FEATURES.OFFICE_POLITICS_MAPPING,
               FEATURES.EXIT_AND_REPUTATION_PLAN}]

ROUTE_POLICY ==
    << [match |-> <<"/">>,
        minTier |-> NULL],
       [match |-> <<"/", "s", "t", "a", "r", "t", "-", "h", "e", "r", "e">>,
        minTier |-> NULL],
       [match |-> <<"/", "p", "r", "i", "c", "i", "n", "g">>,
        minTier |-> NULL],
       [match |-> <<"/", "h", "e", "l", "p", "-", "c", "e", "n", "t", "r", "e">>,
        minTier |-> NULL],
       [match |-> <<"/", "s", "i", "g", "n", "-", "i", "n">>,
        minTier |-> NULL],
       [match |-> <<"/", "c", "r", "e", "a", "t", "e", "-", "a", "c", "c", "o", "u", "n", "t">>,
        minTier |-> NULL],
       [match |-> <<"/", "d", "a", "s", "h", "b", "o", "a", "r", "d">>,
        minTier |-> "free"],
       [match |-> <<"/", "m", "y", "-", "p", "l", "a", "y", "b", "o", "o", "k">>,
        minTier |-> "core"],
       [match |-> <<"/", "t", "o", "o", "l", "s", "/", "c", "h", "e", "c", "k", "l", "i", "s", "t", "-">>,
        minTier |-> "free"],
       [match |-> <<"/", "t", "o", "o", "l", "s", "/", "f", "r", "a", "m", "e", "w", "o", "r", "k", "-">>,
        minTier |-> "core"],
       [match |-> <<"/", "t", "o", "o", "l", "s", "/", "a", "s", "s", "e", "s", "s", "m", "e", "n", "t", "-">>,
        minTier |-> "core"],
       [match |-> <<"/", "t", "o", "o", "l", "s", "/", "f", "o", "r", "m", "-">>,
        minTier |-> "core"],
       [match |-> <<"/", "e", "d", "g", "e">>,
        minTier |-> "edge"],
       [match |-> <<"/", "c", "o", "a", "c", "h">>,
        minTier |-> "edge"] >>

TIER_RANK == [free |-> 1, core |-> 2, edge |-> 3]

\* TIER_RANK[t] || 0
RankOrZero(t) == IF t \in DOMAIN TIER_RANK THEN TIER_RANK[t] ELSE 0

(***************************************************************************)
(* Normalise user context                                                   *)
(***************************************************************************)
\* user?.key for a string-valued key
Field(user, key) ==
    IF user /= NoUser /\ key \in DOMAIN user THEN user[key] ELSE NULL

\* a || b
Or(a, b) == IF Truthy(a) THEN a ELSE b

getUserTier_PrefersTierField(user) ==
    LET tier == Or(Field(user, "tier"),
                   Or(Field(user, "planTier"),
                      Or(Field(user, "plan"), TIERS.FREE)))
    IN  IF tier = "strategic_edge" \/ tier = "strategic-edge" THEN TIERS.EDGE
        ELSE IF tier \notin TierValues THEN TIERS.FREE
        ELSE tier

getUserTier(user) ==
    LET tier == Or(Field(user, "planTier"),
                   Or(Field(user, "tier"),
                      Or(Field(user, "plan"), TIERS.FREE)))
    IN  IF tier = "strategic_edge" \/ tier = "strategic-edge" THEN TIERS.EDGE
        ELSE IF tier \notin TierValues THEN TIERS.FREE
        ELSE tier

isLoggedIn(user) ==
    Truthy(Or(Field(user, "id"), Or(Field(user, "userId"), Field(user, "email"))))

(***************************************************************************)
(* Entitlements helpers                                                     *)
(***************************************************************************)
Range(s) == {s[i] : i \in 1..Len(s)}

getEntitlements(user) ==
    LET tier == getUserTier(user)
        isArray == user /= NoUser /\ "entitlements" \in DOMAIN user
    IN  IF isArray /\ Len(user.entitlements) > 0
        THEN Range(user.entitlements)
        ELSE DEFAULT_ENTITLEMENTS[tier]

hasFeature(user, featureKey) ==
    IF ~Truthy(featureKey) THEN FALSE
    ELSE featureKey \in getEntitlements(user)

(***************************************************************************)
(* Tier gating helpers                                                      *)
(***************************************************************************)
meetsTier_IgnoresLogin(user, minTier) ==
    IF ~Truthy(minTier) THEN TRUE
    ELSE RankOrZero(getUserTier(user)) >= RankOrZero(minTier)

meetsTier(user, minTier) ==
    IF ~Truthy(minTier) THEN TRUE
    ELSE IF ~isLoggedIn(user) THEN FALSE
    ELSE RankOrZero(getUserTier(user)) >= RankOrZero(minTier)

\* String.prototype.startsWith
startsWith(s, p) == Len(p) <= Len(s) /\ SubSeq(s, 1, Len(p)) = p

\* p.match?.length || 0
MatchLength(p) == Len(p.match)

\* Array.prototype.sort with the comparator (a, b) => len(b) - len(a):
\* a stable sort by descending match length (insertion from the right keeps
\* equal keys in their original order).
RECURSIVE InsertByLength(_, _)
InsertByLength(p, sorted) ==
    IF sorted = <<>> THEN <<p>>
    ELSE IF MatchLength(Head(sorted)) - MatchLength(p) >= 0
         THEN <<Head(sorted)>> \o InsertByLength(p, Tail(sorted))
         ELSE <<p>> \o sorted

RECURSIVE SortByLengthDesc(_)
SortByLengthDesc(s) ==
    IF s = <<>> THEN <<>>
    ELSE InsertByLength(s[Len(s)], SortByLengthDesc(SubSeq(s, 1, Len(s) - 1)))

\* getRoutePolicy's null result
NoPolicy == [none |-> TRUE]

PolicyMatches(p, pathname) == pathname = p.match \/ startsWith(pathname, p.match)

getRoutePolicy_FirstDeclared(pathname) ==
    IF pathname = <<>> THEN NoPolicy
    ELSE LET matches == SelectSeq(ROUTE_POLICY, LAMBDA p : PolicyMatches(p, pathname))
         IN  IF matches = <<>> THEN NoPolicy ELSE matches[1]

getRoutePolicy(pathname) ==
    IF pathname = <<>> THEN NoPolicy
    ELSE LET matches ==
                 SortByLengthDesc(
                     SelectSeq(ROUTE_POLICY, LAMBDA p : PolicyMatches(p, pathname)))
         IN  IF matches = <<>> THEN NoPolicy ELSE matches[1]

canAccessRoute_DeniesUnmatched(user, pathname) ==
    LET policy == getRoutePolicy(pathname)
    IN  IF policy = NoPolicy THEN isLoggedIn(user)
        ELSE meetsTier(user, policy.minTier)

canAccessRoute(user, pathname) ==
    LET policy == getRoutePolicy(pathname)
    IN  IF policy = NoPolicy THEN TRUE
        ELSE meetsTier(user, policy.minTier)

(***************************************************************************)
(* UX helpers: lock state                                                   *)
(***************************************************************************)
guessRequiredTier_SimulatorIsCore(featureKey) ==
    LET edgeKeys == {FEATURES.EDGE_BRIEFING, FEATURES.COACH_AI,
                     FEATURES.ADVANCED_TEMPLATE_BANK,
                     FEATURES.OFFICE_POLITICS_MAPPING,
                     FEATURES.EXIT_AND_REPUTATION_PLAN,
                     FEATURES.VOICE_TO_TEXT_JOURNAL}
        coreKeys == {FEATURES.SAVE_TO_MY_PLAYBOOK, FEATURES.TEMPLATE_BANK,
                     FEATURES.SCRIPT_LIBRARY, FEATURES.STRATEGY_JOURNAL,
                     FEATURES.SITUATION_SIMULATOR}
    IN  IF featureKey \in edgeKeys THEN TIERS.EDGE
        ELSE IF featureKey \in coreKeys THEN TIERS.CORE
        ELSE TIERS.FREE

guessRequiredTier(featureKey) ==
    LET edgeKeys == {FEATURES.EDGE_BRIEFING, FEATURES.COACH_AI,
                     FEATURES.ADVANCED_TEMPLATE_BANK,
                     FEATURES.OFFICE_POLITICS_MAPPING,
                     FEATURES.EXIT_AND_REPUTATION_PLAN,
                     FEATURES.VOICE_TO_TEXT_JOURNAL,
                     FEATURES.SITUATION_SIMULATOR}
        coreKeys == {FEATURES.SAVE_TO_MY_PLAYBOOK, FEATURES.TEMPLATE_BANK,
                     FEATURES.SCRIPT_LIBRARY, FEATURES.STRATEGY_JOURNAL}
    IN  IF featureKey \in edgeKeys THEN TIERS.EDGE
        ELSE IF featureKey \in coreKeys THEN TIERS.CORE
        ELSE TIERS.FREE

\* the lock-state object; a property the source leaves out is NULL here
LockState(locked, reason, ctaHref, requiredTier, currentTier) ==
    [locked |-> locked, reason |-> reason, ctaHref |-> ctaHref,
     requiredTier |-> requiredTier, currentTier |-> currentTier]

Unlocked == LockState(FALSE, NULL, NULL, NULL, NULL)

getLockStateForFeature_EntitlementFirst(user, featureKey, minTier) ==
    IF Truthy(featureKey) /\ ~hasFeature(user, featureKey)
    THEN LockState(TRUE, "not_entitled", "/pricing",
                   guessRequiredTier(featureKey), getUserTier(user))
    ELSE IF ~isLoggedIn(user)
    THEN LockState(TRUE, "sign_in_required", "/sign-in", NULL, NULL)
    ELSE IF Truthy(minTier) /\ ~meetsTier(user, minTier)
    THEN LockState(TRUE, "upgrade_required", "/pricing",
                   minTier, getUserTier(user))
    ELSE Unlocked

getLockStateForFeature(user, featureKey, minTier) ==
    LET loggedIn == isLoggedIn(user)
    IN  IF ~loggedIn
        THEN LockState(TRUE, "sign_in_required", "/sign-in", NULL, NULL)
        ELSE IF Truthy(minTier) /\ ~meetsTier(user, minTier)
        THEN LockState(TRUE, "upgrade_required", "/pricing",
                       minTier, getUserTier(user))
        ELSE IF Truthy(featureKey) /\ ~hasFeature(user, featureKey)
        THEN LockState(TRUE, "not_entitled", "/pricing",
                       guessRequiredTier(featureKey), getUserTier(user))
        ELSE Unlocked

(***************************************************************************)
(* Input domains of the entitlement calls                                   *)
(***************************************************************************)
\* identity markers a user record may carry
IdentityParts ==
    { <<>>,
      [id |-> "u1"],
      [userId |-> "u7"],
      [email |-> "a@tep.io"],
      [id |-> "u1", email |-> "a@tep.io"] }

\* tier fields a user record may carry (canonical, legacy, unknown, several)
TierParts ==
    { <<>>,
      [tier |-> "free"], [tier |-> "core"], [tier |-> "edge"],
      [tier |-> "strategic_edge"], [tier |-> "strategic-edge"],
      [tier |-> "gold"],
      [planTier |-> "core"], [planTier |-> "edge"],
      [plan |-> "edge"], [plan |-> "core"],
      [planTier |-> "core", tier |-> "edge"],
      [tier |-> "free", plan |-> "edge"],
      [planTier |-> "gold", plan |-> "edge"] }

\* explicit entitlement override lists
EntitlementParts ==
    { <<>>,
      [entitlements |-> <<>>],
      [entitlements |-> <<FEATURES.COACH_AI>>],
      [entitlements |-> <<FEATURES.SEARCH, FEATURES.SITUATION_SIMULATOR>>] }

UserRecords ==
    { i @@ t @@ e : i \in IdentityParts, t \in TierParts, e \in EntitlementParts }

Users == UserRecords \cup {NoUser}

NoIdentity(user) ==
    user = NoUser \/ DOMAIN user \cap {"id", "userId", "email"} = {}

MinTiers == {NULL, "free", "core", "edge", "gold"}

AllFeatures == {FEATURES[k] : k \in DOMAIN FEATURES}

FeatureKeys == AllFeatures \cup {NULL, "time_travel"}

P_root == <<"/">>
P_pricing == <<"/", "p", "r", "i", "c", "i", "n", "g">>
P_dashboard == <<"/", "d", "a", "s", "h", "b", "o", "a", "r", "d">>
P_my_playbook == <<"/", "m", "y", "-", "p", "l", "a", "y", "b", "o", "o", "k">>
P_tools_framework_1 == <<"/", "t", "o", "o", "l", "s", "/", "f", "r", "a", "m", "e", "w", "o", "r", "k", "-", "1">>
P_tools_checklist_2 == <<"/", "t", "o", "o", "l", "s", "/", "c", "h", "e", "c", "k", "l", "i", "s", "t", "-", "2">>
P_tools_other == <<"/", "t", "o", "o", "l", "s", "/", "o", "t", "h", "e", "r">>
P_edge_briefing == <<"/", "e", "d", "g", "e", "/", "b", "r", "i", "e", "f", "i", "n", "g">>
P_edgeware == <<"/", "e", "d", "g", "e", "w", "a", "r", "e">>
P_coach == <<"/", "c", "o", "a", "c", "h">>
P_index_html == <<"i", "n", "d", "e", "x", ".", "h", "t", "m", "l">>
P_sign_in_html == <<"s", "i", "g", "n", "-", "i", "n", ".", "h", "t", "m", "l">>
P_sign_in == <<"/", "s", "i", "g", "n", "-", "i", "n">>

\* <<>> is the empty / missing pathname
Paths ==
    { <<>>, P_root, P_pricing, P_dashboard, P_my_playbook, P_tools_framework_1,
      P_tools_checklist_2, P_tools_other, P_edge_briefing, P_edgeware, P_coach,
      P_index_html, P_sign_in_html, P_sign_in }

(***************************************************************************)
(* The entitlement model as calls: every call is one evaluation of one      *)
(* exported function on inputs drawn from the domains above.                *)
(***************************************************************************)
NoCall == [fn |-> "none", user |-> NoUser, featureKey |-> NULL,
           minTier |-> NULL, pathname |-> <<>>]

Call(fn, user, featureKey, minTier, pathname) ==
    [fn |-> fn, user |-> user, featureKey |-> featureKey,
     minTier |-> minTier, pathname |-> pathname]

InitEnt ==
    /\ call = NoCall /\ ret = NULL
    /\ localStorage = <<>> /\ lastWrite = NoWrite /\ got = NotRead
    /\ IdlePage

CallGetUserTier ==
    /\ call = NoCall
    /\ \E u \in Users :
          /\ call' = Call("getUserTier", u, NULL, NULL, <<>>)
          /\ ret' = getUserTier(u)
    /\ UNCHANGED <<storeVars, pageVars, authVars>>

CallIsLoggedIn ==
    /\ call = NoCall
    /\ \E u \in Users :
          /\ call' = Call("isLoggedIn", u, NULL, NULL, <<>>)
          /\ ret' = isLoggedIn(u)
    /\ UNCHANGED <<storeVars, pageVars, authVars>>

CallHasFeature ==
    /\ call = NoCall
    /\ \E u \in Users, f \in FeatureKeys :
          /\ call' = Call("hasFeature", u, f, NULL, <<>>)
          /\ ret' = hasFeature(u, f)
    /\ UNCHANGED <<storeVars, pageVars, authVars>>

CallMeetsTier ==
    /\ call = NoCall
    /\ \E u \in Users, m \in MinTiers :
          /\ call' = Call("meetsTier", u, NULL, m, <<>>)
          /\ ret' = meetsTier(u, m)
    /\ UNCHANGED <<storeVars, pageVars, authVars>>

CallGetRoutePolicy ==
    /\ call = NoCall
    /\ \E p \in Paths :
          /\ call' = Call("getRoutePolicy", NoUser, NULL, NULL, p)
          /\ ret' = getRoutePolicy(p)
    /\ UNCHANGED <<storeVars, pageVars, authVars>>

CallCanAccessRoute ==
    /\ call = NoCall
    /\ \E u \in Users, p \in Paths :
          /\ call' = Call("canAccessRoute", u, NULL, NULL, p)
          /\ ret' = canAccessRoute(u, p)
    /\ UNCHANGED <<storeVars, pageVars, authVars>>

CallGetLockStateForFeature ==
    /\ call = NoCall
    /\ \E u \in Users, f \in FeatureKeys, m \in MinTiers :
          /\ call' = Call("getLockStateForFeature", u, f, m, <<>>)
          /\ ret' = getLockStateForFeature(u, f, m)
    /\ UNCHANGED <<storeVars, pageVars, authVars>>

NextEnt ==
    \/ CallGetUserTier
    \/ CallIsLoggedIn
    \/ CallHasFeature
    \/ CallMeetsTier
    \/ CallGetRoutePolicy
    \/ CallCanAccessRoute
    \/ CallGetLockStateForFeature

SpecEnt == InitEnt /\ [][NextEnt]_vars

(***************************************************************************)
(* Local user storage (authUI.js).  localStorage is a function from the     *)
(* keys that are present to their string values; it is a reliable store     *)
(* (getItem, setItem and removeItem succeed).  A stored profile string is    *)
(* the sequence of its JSON tokens.                                          *)
(***************************************************************************)
STORAGE_KEY == "tep_user"

getItem(storage, key) == IF key \in DOMAIN storage THEN storage[key] ELSE <<>>

hasItem(storage, key) == key \in DOMAIN storage

setItem(storage, key, value) ==
    [k \in DOMAIN storage \cup {key} |-> IF k = key THEN value ELSE storage[k]]

removeItem(storage, key) == [k \in DOMAIN storage \ {key} |-> storage[k]]

\* JSON tokens
TBegin == [t |-> "{"]
TEnd == [t |-> "}"]
TKey(k) == [t |-> "key", v |-> k]
TStr(v) == [t |-> "str", v |-> v]
TArr(a) == [t |-> "arr", a |-> a]
TNull == [t |-> "null"]
TNum == [t |-> "num"]
TTrue == [t |-> "true"]
TJunk == [t |-> "junk"]

\* the order in which JSON.stringify writes the properties of a user record
KeyOrder == <<"id", "userId", "email", "planTier", "tier", "plan", "entitlements">>

RECURSIVE StringifyMembers(_, _)
StringifyMembers(user, keys) ==
    IF keys = <<>> THEN <<>>
    ELSE LET k == Head(keys)
             rest == StringifyMembers(user, Tail(keys))
         IN  IF k \notin DOMAIN user THEN rest
             ELSE IF k = "entitlements"
                  THEN <<TKey(k), TArr(user[k])>> \o rest
                  ELSE <<TKey(k), TStr(user[k])>> \o rest

JSONstringify_DropsEntitlements(user) ==
    <<TBegin>> \o StringifyMembers(user, SubSeq(KeyOrder, 1, Len(KeyOrder) - 1)) \o <<TEnd>>

\* JSON.stringify of a user record
JSONstringify(user) == <<TBegin>> \o StringifyMembers(user, KeyOrder) \o <<TEnd>>

\* a completion: a returned value or a thrown exception
Return(v) == [kind |-> "return", value |-> v]
Throw == [kind |-> "throw", value |-> NoUser]

\* parsed values that are not user records
ParsedArray == [array |-> TRUE]
ParsedPrimitive == [primitive |-> TRUE]

\* the token pairs between the braces are "key": value members
IsMemberList(toks) ==
    /\ Len(toks) % 2 = 0
    /\ \A i \in 1..Len(toks) :
          IF i % 2 = 1 THEN toks[i].t = "key"
          ELSE toks[i].t \in {"str", "arr"}

TokenValue(tok) == IF tok.t = "arr" THEN tok.a ELSE tok.v

\* the object a member list denotes (a repeated key keeps its last value)
ObjectOf(toks) ==
    LET keys == {toks[i].v : i \in {j \in 1..Len(toks) : j % 2 = 1}}
        lastOf(k) == CHOOSE i \in 1..Len(toks) :
                         /\ i % 2 = 1 /\ toks[i].v = k
                         /\ \A j \in 1..Len(toks) :
                               (j % 2 = 1 /\ toks[j].v = k) => j <= i
    IN  [k \in keys |-> TokenValue(toks[lastOf(k) + 1])]

\* JSON.parse: the value a text denotes, or a SyntaxError
JSONparse(raw) ==
    IF Len(raw) = 1 /\ raw[1].t = "null" THEN Return(NoUser)
    ELSE IF Len(raw) = 1 /\ raw[1].t \in {"num", "true", "str"}
         THEN Return(ParsedPrimitive)
    ELSE IF Len(raw) = 1 /\ raw[1].t = "arr" THEN Return(ParsedArray)
    ELSE IF /\ Len(raw) >= 2
            /\ raw[1] = TBegin
            /\ raw[Len(raw)] = TEnd
            /\ IsMemberList(SubSeq(raw, 2, Len(raw) - 1))
         THEN Return(ObjectOf(SubSeq(raw, 2, Len(raw) - 1)))
    ELSE Throw

\* parsed && typeof parsed === "object"
IsObject(v) == v /= NoUser /\ v /= ParsedPrimitive

getStoredUser_NoCatch(storage) ==
    LET raw == getItem(storage, STORAGE_KEY)
    IN  IF raw = <<>> THEN Return(NoUser)
        ELSE LET parsed == JSONparse(raw)
             IN  IF parsed.kind = "throw" THEN Throw
                 ELSE IF IsObject(parsed.value) THEN Return(parsed.value)
                 ELSE Return(NoUser)

\* getStoredUser: the completion of the call (getItem yields null for a
\* missing key, and "" is as falsy as null)
getStoredUser(storage) ==
    LET raw == getItem(storage, STORAGE_KEY)
    IN  IF raw = <<>> THEN Return(NoUser)
        ELSE LET parsed == JSONparse(raw)
             IN  IF parsed.kind = "throw" THEN Return(NoUser)
                 ELSE IF IsObject(parsed.value) THEN Return(parsed.value)
                 ELSE Return(NoUser)

\* setStoredUser: the storage after the call
setStoredUser(storage, user) ==
    IF user = NoUser THEN removeItem(storage, STORAGE_KEY)
    ELSE setItem(storage, STORAGE_KEY, JSONstringify(user))

\* clearStoredUser: the storage after the call
clearStoredUser(storage) == removeItem(storage, STORAGE_KEY)

\* user records the application stores at sign-in
StoredUsers ==
    { <<>>,
      [id |-> "u1"],
      [id |-> "u1", tier |-> "core"],
      [tier |-> "core"],
      [email |-> "a@tep.io", planTier |-> "edge"],
      [userId |-> "u7", plan |-> "strategic_edge", entitlements |-> <<>>],
      [id |-> "u1", email |-> "a@tep.io", tier |-> "free",
       entitlements |-> <<FEATURES.COACH_AI>>],
      [id |-> "u1", tier |-> "gold",
       entitlements |-> <<FEATURES.SEARCH, FEATURES.SITUATION_SIMULATOR>>] }

\* contents of the profile key that are no user record: an empty string,
\* text that is not JSON, truncated JSON, and JSON that is not an object
MalformedProfiles ==
    { <<>>,
      <<TJunk>>,
      <<TBegin>>,
      <<TBegin, TKey("id"), TStr("u1")>>,
      <<TBegin, TKey("id"), TEnd>>,
      <<TBegin, TStr("u1"), TKey("id"), TEnd>>,
      <<TKey("id"), TStr("u1"), TEnd>>,
      <<TNull>>, <<TNum>>, <<TTrue>>, <<TStr("core")>>,
      <<TNull, TNull>> }

\* what the profile key may hold when the page loads
InitialProfiles ==
    MalformedProfiles
        \cup {JSONstringify(u) : u \in StoredUsers}
        \cup {<<TArr(<<"u1">>)>>}

\* the key the static pages keep the attempted URL under
RETURN_KEY == "returnTo"

\* what the returnTo key may hold when the page loads
InitialReturnTo == {P_edge_briefing, P_dashboard}

\* a key of localStorage when a page loads: absent, or one of `values`
InitialItems(key, values) == {<<>>} \cup {key :> v : v \in values}

InitStore ==
    /\ call = NoCall /\ ret = NULL
    /\ \E profile \in InitialItems(STORAGE_KEY, InitialProfiles),
          returnTo \in InitialItems(RETURN_KEY, InitialReturnTo) :
          localStorage = profile @@ returnTo
    /\ lastWrite = NoWrite
    /\ got = NotRead
    /\ IdlePage

\* sign-in: the profile is cached (or dropped when there is none)
SetStoredUser ==
    /\ \E u \in StoredUsers \cup {NoUser} :
          /\ localStorage' = setStoredUser(localStorage, u)
          /\ lastWrite' = [op |-> "set", user |-> u]
    /\ got' = NotRead
    /\ UNCHANGED <<entVars, pageVars, authVars>>

\* sign-out
ClearStoredUser ==
    /\ localStorage' = clearStoredUser(localStorage)
    /\ lastWrite' = [op |-> "clear", user |-> NoUser]
    /\ got' = NotRead
    /\ UNCHANGED <<entVars, pageVars, authVars>>

\* a read of the cached profile; got is the completion of the call
GetStoredUser ==
    /\ got = NotRead
    /\ got' = getStoredUser(localStorage)
    /\ UNCHANGED <<localStorage, lastWrite>>
    /\ UNCHANGED <<entVars, pageVars, authVars>>

NextStore ==
    \/ SetStoredUser
    \/ ClearStoredUser
    \/ GetStoredUser

SpecStore == InitStore /\ [][NextStore]_vars

(***************************************************************************)
(* URL helpers and the page guard (authUI.js).  A URL is the sequence of    *)
(* its characters.                                                           *)
(***************************************************************************)
\* application/x-www-form-urlencoded serialisation of one character
EncodeChar(c) ==
    CASE c = "/" -> <<"%", "2", "F">>
      [] c = "?" -> <<"%", "3", "F">>
      [] c = "=" -> <<"%", "3", "D">>
      [] c = "%" -> <<"%", "2", "5">>
      [] OTHER -> <<c>>

RECURSIVE PercentEncode(_)
PercentEncode(s) ==
    IF s = <<>> THEN <<>> ELSE EncodeChar(Head(s)) \o PercentEncode(Tail(s))

DecodeTriple(t) ==
    CASE t = <<"%", "2", "F">> -> <<"/">>
      [] t = <<"%", "3", "F">> -> <<"?">>
      [] t = <<"%", "3", "D">> -> <<"=">>
      [] t = <<"%", "2", "5">> -> <<"%">>
      [] OTHER -> t

RECURSIVE PercentDecode(_)
PercentDecode(s) ==
    IF s = <<>> THEN <<>>
    ELSE IF Head(s) = "%" /\ Len(s) >= 3
         THEN DecodeTriple(SubSeq(s, 1, 3)) \o PercentDecode(SubSeq(s, 4, Len(s)))
         ELSE <<Head(s)>> \o PercentDecode(Tail(s))

\* "?returnTo="
ReturnToQuery == <<"?", "r", "e", "t", "u", "r", "n", "T", "o", "=">>

\* new URL(href).searchParams.get("returnTo"): the decoded value, or <<>>
\* (null) when the URL carries no such parameter
searchParamsGetReturnTo(url) ==
    LET n == Len(ReturnToQuery)
        starts == {i \in 1..Len(url) :
                      i + n - 1 <= Len(url) /\ SubSeq(url, i, i + n - 1) = ReturnToQuery}
    IN  IF starts = {} THEN <<>>
        ELSE LET i == CHOOSE k \in starts : \A j \in starts : k <= j
             IN  PercentDecode(SubSeq(url, i + n, Len(url)))

\* buildAuthUrl: url.pathname + url.search with returnTo set
buildAuthUrl(path, returnTo, loc) ==
    LET safeReturn == IF returnTo /= <<>> THEN returnTo
                      ELSE loc.pathname \o loc.search
    IN  path \o ReturnToQuery \o PercentEncode(safeReturn)

\* redirectToSignIn / redirectToPricing: the value assigned to location.href
redirectToSignIn(returnTo, loc) == buildAuthUrl(P_sign_in, returnTo, loc)
redirectToPricing(returnTo, loc) == buildAuthUrl(P_pricing, returnTo, loc)

\* the options object of guardPageAccess: a property left out takes its
\* default
OptPathname(options, loc) ==
    IF "pathname" \in DOMAIN options THEN options.pathname ELSE loc.pathname

OptUser(options, storage) ==
    IF "user" \in DOMAIN options THEN options.user
    ELSE getStoredUser(storage).value

OptEnforce(options) ==
    IF "enforceRoutePolicy" \in DOMAIN options THEN options.enforceRoutePolicy
    ELSE TRUE

GuardResult(allowed, redirectedTo, url) ==
    [allowed |-> allowed, redirectedTo |-> redirectedTo, href |-> url]

guardPageAccess_AlwaysSignIn(options, loc, storage) ==
    LET pathname == OptPathname(options, loc)
        user == OptUser(options, storage)
    IN  IF ~OptEnforce(options) THEN GuardResult(TRUE, NULL, NoNav)
        ELSE IF canAccessRoute(user, pathname) THEN GuardResult(TRUE, NULL, NoNav)
        ELSE GuardResult(FALSE, "sign-in", redirectToSignIn(pathname, loc))

\* guardPageAccess: its return value and the URL it assigns to
\* window.location.href (NoNav when it assigns none)
guardPageAccess(options, loc, storage) ==
    LET pathname == OptPathname(options, loc)
        user == OptUser(options, storage)
    IN  IF ~OptEnforce(options) THEN GuardResult(TRUE, NULL, NoNav)
        ELSE IF canAccessRoute(user, pathname) THEN GuardResult(TRUE, NULL, NoNav)
        ELSE IF ~isLoggedIn(user)
             THEN GuardResult(FALSE, "sign-in", redirectToSignIn(pathname, loc))
             ELSE GuardResult(FALSE, "pricing", redirectToPricing(pathname, loc))

\* pages a visitor may load, with and without a query string
Search_tab == <<"?", "t", "a", "b", "=", "2">>

Pages ==
    { [pathname |-> p, search |-> q] :
          p \in {P_root, P_dashboard, P_my_playbook, P_tools_framework_1,
                 P_edge_briefing, P_coach, P_sign_in},
          q \in {<<>>, Search_tab} }

\* options a page may pass to guardPageAccess
GuardOptions ==
    { p @@ u @@ e :
          p \in {<<>>, [pathname |-> P_edge_briefing], [pathname |-> P_index_html]},
          u \in {<<>>, [user |-> NoUser], [user |-> [id |-> "u1", tier |-> "core"]]},
          e \in {<<>>, [enforceRoutePolicy |-> TRUE], [enforceRoutePolicy |-> FALSE]} }

InitGuard ==
    /\ call = NoCall /\ ret = NULL
    /\ \E profile \in InitialItems(STORAGE_KEY, InitialProfiles) :
          localStorage = profile
    /\ lastWrite = NoWrite
    /\ got = NotRead
    /\ location \in Pages
    /\ href = NoNav
    /\ guard = "unchecked"
    /\ guardCall = NoGuardCall
    /\ handlers = <<>>
    /\ navLog = <<>>

\* the page calls guardPageAccess once, early on page load
GuardPageAccess ==
    /\ guard = "unchecked"
    /\ \E options \in GuardOptions :
          LET r == guardPageAccess(options, location, localStorage)
          IN  /\ guard' = IF r.allowed THEN "allowed" ELSE "redirecting"
              /\ href' = r.href
              /\ guardCall' = [pathname |-> OptPathname(options, location),
                               user |-> OptUser(options, localStorage),
                               enforceRoutePolicy |-> OptEnforce(options)]
    /\ UNCHANGED <<entVars, storeVars, location, authVars>>

\* the visitor signs in or out on the page while it is displayed
GuardedPageSignIn ==
    /\ href = NoNav
    /\ \E u \in {NoUser, [id |-> "u1", tier |-> "edge"]} :
          /\ localStorage' = setStoredUser(localStorage, u)
          /\ lastWrite' = [op |-> "set", user |-> u]
    /\ got' = NotRead
    /\ UNCHANGED <<entVars, pageVars, authVars>>

NextGuard ==
    \/ GuardPageAccess
    \/ GuardedPageSignIn

SpecGuard == InitGuard /\ [][NextGuard]_vars

(***************************************************************************)
(* Static pages: the session guard of protected pages (accessControl.js,    *)
(* second part) and the sign-in page script (auth.js).  An async handler    *)
(* runs to its await in one step and from the settled await to its end in   *)
(* another; handlers of the page keep running after location.href is         *)
(* assigned, until the page unloads.                                         *)
(***************************************************************************)
\* invocations of handleSignIn per visit of the sign-in page
MaxSubmits == 2

\* pages that load the session guard
ProtectedPaths == {P_dashboard, P_my_playbook, P_edge_briefing}

SignInPaths == {P_sign_in_html, P_sign_in}

\* the page a URL string names: its path and its query string
RECURSIVE QueryStart(_, _)
QueryStart(url, i) ==
    IF i > Len(url) THEN Len(url) + 1
    ELSE IF url[i] = "?" THEN i
    ELSE QueryStart(url, i + 1)

ParseUrl(url) ==
    LET q == QueryStart(url, 1)
    IN  [pathname |-> SubSeq(url, 1, q - 1), search |-> SubSeq(url, q, Len(url))]

\* window.location.href of the current page
LocationHref(loc) == loc.pathname \o loc.search

staticRedirectToSignIn_WritesProfileKey(storage, loc) ==
    setItem(storage, STORAGE_KEY, loc.pathname \o loc.search)

\* the session guard's redirectToSignIn: the storage after it (it then
\* assigns "sign-in.html" to location.href)
staticRedirectToSignIn(storage, loc) ==
    setItem(storage, RETURN_KEY, loc.pathname \o loc.search)

\* getReturnTo
getReturnTo(storage, loc) ==
    LET query == searchParamsGetReturnTo(LocationHref(loc))
        stored == getItem(storage, RETURN_KEY)
    IN  IF query /= <<>> THEN query
        ELSE IF stored /= <<>> THEN stored
        ELSE P_index_html

\* clearReturnTo
clearReturnTo(storage) == removeItem(storage, RETURN_KEY)

\* URLs under which a visitor opens the sign-in page directly or is sent to
\* it by guardPageAccess
SignInPages ==
    { ParseUrl(P_sign_in_html), ParseUrl(P_sign_in),
      ParseUrl(redirectToSignIn(P_edge_briefing, ParseUrl(P_edge_briefing))) }

ProtectedPages ==
    { [pathname |-> p, search |-> q] : p \in ProtectedPaths, q \in {<<>>, Search_tab} }

InitAuth ==
    /\ call = NoCall /\ ret = NULL
    /\ \E returnTo \in InitialItems(RETURN_KEY, InitialReturnTo) :
          localStorage = returnTo
    /\ lastWrite = NoWrite
    /\ got = NotRead
    /\ location \in SignInPages \cup ProtectedPages
    /\ href = NoNav
    /\ guard = "unchecked"
    /\ guardCall = NoGuardCall
    /\ handlers = <<>>
    /\ navLog = <<>>

\* the session guard of a protected page: client.auth.getSession() settles
\* and the async function runs to its end.  A rejected getSession ends the
\* function at its await with the exception (there is no try/catch around
\* it): nothing is stored, nothing is assigned to location.href and the
\* page stays displayed; guard = "unguarded" names that end
SessionGuardSettles ==
    /\ location.pathname \in ProtectedPaths
    /\ guard = "unchecked"
    /\ href = NoNav
    /\ \E outcome \in {"session", "no_session", "error", "rejected"} :
          CASE outcome = "session" ->
                  /\ guard' = "allowed"
                  /\ UNCHANGED <<localStorage, href>>
            [] outcome \in {"no_session", "error"} ->
                  /\ localStorage' = staticRedirectToSignIn(localStorage, location)
                  /\ href' = P_sign_in_html
                  /\ guard' = "redirecting"
            [] outcome = "rejected" ->
                  /\ guard' = "unguarded"
                  /\ UNCHANGED <<localStorage, href>>
    /\ UNCHANGED <<entVars, lastWrite, got, location, guardCall, authVars>>

\* the navigation under way commits: the page unloads, its handlers with it
PageUnloads ==
    /\ href /= NoNav
    /\ location' = ParseUrl(href)
    /\ href' = NoNav
    /\ guard' = "unchecked"
    /\ handlers' = <<>>
    /\ navLog' = <<>>
    /\ UNCHANGED <<entVars, storeVars, guardCall>>

\* the messages of alert()
MSG_ENTER == "Please enter your email and password."
MSG_SIGN_IN_FAILED == "Sign-in failed."
MSG_SIGN_UP_FAILED == "Sign-up failed."
MSG_CREATED == "Account created. You can now sign in."

\* err.message of the error the provider returned or rejected with: a text,
\* or none
ErrorMessages == {NULL, "Invalid login credentials"}

\* a running or finished handleSignIn / handleSignUp: its event, where it
\* stands, the calls it made to the identity provider, how its call ended
\* and the text it alerted (NULL: no alert)
Handler(op, event, pc, calls, result, alerted) ==
    [op |-> op, event |-> event, pc |-> pc, calls |-> calls,
     result |-> result, alert |-> alerted]

\* the handler up to its await: with an empty email or password it alerts
\* and returns, else it calls the provider once and awaits
startHandler(op, event, filled) ==
    IF filled
    THEN Handler(op, event, "awaiting", 1, "pending", NULL)
    ELSE Handler(op, event, "alerted", 0, "none", MSG_ENTER)

\* the catch block of a handler: alert(err.message || fallback)
catchAuthError_Retries(h, outcome, message, fallback) ==
    IF h.calls < 2
    THEN [h EXCEPT !.calls = 2]
    ELSE [h EXCEPT !.pc = "alerted", !.result = outcome,
                   !.alert = Or(message, fallback)]

catchAuthError(h, outcome, message, fallback) ==
    [h EXCEPT !.pc = "alerted", !.result = outcome,
              !.alert = Or(message, fallback)]

\* handleSignIn up to its await: a form submit or a button click
HandleSignInStarts ==
    /\ location.pathname \in SignInPaths
    /\ Len(handlers) < MaxSubmits
    /\ \E event \in {"submit", "click"}, filled \in BOOLEAN :
          handlers' = Append(handlers, startHandler("signIn", event, filled))
    /\ UNCHANGED <<entVars, storeVars, pageVars, navLog>>

\* handleSignIn from the settled signInWithPassword to its end: goAfterAuth
\* on success; on an error result (signIn throws it) or a rejected call the
\* catch alerts
HandleSignInSettles ==
    /\ location.pathname \in SignInPaths
    /\ \E i \in 1..Len(handlers), outcome \in {"signed_in", "error", "rejected"},
          message \in ErrorMessages :
          /\ handlers[i].op = "signIn"
          /\ handlers[i].pc = "awaiting"
          /\ IF outcome = "signed_in"
             THEN LET to == getReturnTo(localStorage, location)
                  IN  /\ localStorage' = clearReturnTo(localStorage)
                      /\ href' = to
                      /\ navLog' = Append(navLog,
                             [to |-> to,
                              query |-> searchParamsGetReturnTo(LocationHref(location)),
                              stored |-> getItem(localStorage, RETURN_KEY)])
                      /\ handlers' = [handlers EXCEPT
                                         ![i].pc = "navigated", ![i].result = "ok"]
             ELSE /\ handlers' = [handlers EXCEPT
                                     ![i] = catchAuthError(@, outcome, message,
                                                           MSG_SIGN_IN_FAILED)]
                  /\ UNCHANGED <<localStorage, href, navLog>>
    /\ UNCHANGED <<entVars, lastWrite, got, location, guard, guardCall>>

\* handleSignUp up to its await
HandleSignUpStarts ==
    /\ location.pathname \in SignInPaths
    /\ Len(handlers) < MaxSubmits
    /\ \E event \in {"submit", "click"}, filled \in BOOLEAN :
          handlers' = Append(handlers, startHandler("signUp", event, filled))
    /\ UNCHANGED <<entVars, storeVars, pageVars, navLog>>

\* handleSignUp from the settled signUp call to its end: it alerts that the
\* account was created, or the catch alerts the error; it never navigates
HandleSignUpSettles ==
    /\ location.pathname \in SignInPaths
    /\ \E i \in 1..Len(handlers), outcome \in {"signed_up", "error", "rejected"},
          message \in ErrorMessages :
          /\ handlers[i].op = "signUp"
          /\ handlers[i].pc = "awaiting"
          /\ handlers' =
                IF outcome = "signed_up"
                THEN [handlers EXCEPT ![i].pc = "alerted", ![i].result = "ok",
                                      ![i].alert = MSG_CREATED]
                ELSE [handlers EXCEPT
                         ![i] = catchAuthError(@, outcome, message,
                                               MSG_SIGN_UP_FAILED)]
    /\ UNCHANGED <<entVars, storeVars, pageVars, navLog>>

NextAuth ==
    \/ SessionGuardSettles
    \/ PageUnloads
    \/ HandleSignInStarts
    \/ HandleSignInSettles
    \/ HandleSignUpStarts
    \/ HandleSignUpSettles

SpecAuth == InitAuth /\ [][NextAuth]_vars

(***************************************************************************)
(* Gating of page elements and the tier chip (authUI.js), together with the *)
(* page guards and the writers of the profile cache: everything a page does *)
(* around the cached profile.  call and ret hold the latest call of         *)
(* gateFeature, createTierChip or mountAuthStatusBadge and what it did.     *)
(***************************************************************************)
TIER_LABELS == [free |-> "Free", core |-> "Core", edge |-> "Strategic Edge"]

\* what a UI function returned and what it did to the document
Done(value, dom) == [value |-> value, dom |-> dom]

\* createTierChip: the span it builds
createTierChip(user) ==
    LET tier == getUserTier(user)
        label == IF tier \in DOMAIN TIER_LABELS THEN TIER_LABELS[tier] ELSE "Free"
        locked == ~isLoggedIn(user)
    IN  [dataTier |-> tier, textContent |-> IF locked THEN "Guest" ELSE label]

\* the options object of gateFeature: a property left out takes its default
OptFeatureKey(options) ==
    IF "featureKey" \in DOMAIN options THEN options.featureKey ELSE NULL

OptMinTier(options) ==
    IF "minTier" \in DOMAIN options THEN options.minTier ELSE NULL

OptMode(options) ==
    IF "mode" \in DOMAIN options THEN options.mode ELSE "overlay"

\* gateFeature: its return value and what it does to each target element
\* (hide, disable with a badge naming a tier, or overlay)
gateFeature(options, storage) ==
    LET featureKey == OptFeatureKey(options)
        minTier == OptMinTier(options)
        user == OptUser(options, storage)
        mode == OptMode(options)
        allowed == Done([allowed |-> TRUE, reason |-> NULL],
                        [mode |-> "none", badge |-> NULL])
        lockState == getLockStateForFeature(user, featureKey, minTier)
    IN  IF ~Truthy(featureKey) /\ ~Truthy(minTier) THEN allowed
        ELSE IF ~lockState.locked THEN allowed
        ELSE Done([allowed |-> FALSE, reason |-> lockState.reason,
                   lockState |-> lockState],
                  [mode |-> mode,
                   badge |-> IF mode = "disable"
                             THEN Or(lockState.requiredTier, Or(minTier, TIERS.CORE))
                             ELSE NULL])

\* mountAuthStatusBadge: null without a container, else the container with
\* the chip and the link it fills in
mountAuthStatusBadge(hasContainer, storage) ==
    LET user == getStoredUser(storage).value
        loggedIn == isLoggedIn(user)
        container == [chip |-> createTierChip(user),
                      linkHref |-> IF loggedIn THEN "/my-playbook" ELSE "/sign-in",
                      linkText |-> IF loggedIn THEN "My Playbook" ELSE "Sign in"]
    IN  IF ~hasContainer THEN Done(NULL, NULL) ELSE Done(container, container)

\* options a page may pass to gateFeature
GateOptions ==
    { f @@ m @@ d :
          f \in {<<>>, [featureKey |-> FEATURES.SAVE_TO_MY_PLAYBOOK]},
          m \in {<<>>, [minTier |-> "edge"]},
          d \in {<<>>, [mode |-> "disable"]} }

\* pages that gate features and show the chip
CachePages ==
    { [pathname |-> P_dashboard, search |-> <<>>],
      [pathname |-> P_edge_briefing, search |-> Search_tab] }

\* what the profile key may hold when such a page loads
CacheProfiles ==
    { <<TJunk>>, JSONstringify([id |-> "u1", tier |-> "core"]) }

InitCache ==
    /\ call = NoCall /\ ret = NULL
    /\ \E profile \in InitialItems(STORAGE_KEY, CacheProfiles) :
          localStorage = profile
    /\ lastWrite = NoWrite
    /\ got = NotRead
    /\ location \in CachePages
    /\ href = NoNav
    /\ guard = "unchecked"
    /\ guardCall = NoGuardCall
    /\ handlers = <<>>
    /\ navLog = <<>>

GateFeature ==
    /\ \E options \in GateOptions :
          /\ call' = Call("gateFeature", OptUser(options, localStorage),
                          OptFeatureKey(options), OptMinTier(options), <<>>)
          /\ ret' = gateFeature(options, localStorage)
    /\ UNCHANGED <<storeVars, pageVars, authVars>>

CreateTierChip ==
    /\ \E options \in {<<>>, [user |-> [id |-> "u1", tier |-> "core"]]} :
          LET user == OptUser(options, localStorage)
          IN  /\ call' = Call("createTierChip", user, NULL, NULL, <<>>)
              /\ ret' = Done(createTierChip(user), NULL)
    /\ UNCHANGED <<storeVars, pageVars, authVars>>

MountAuthStatusBadge ==
    /\ \E hasContainer \in BOOLEAN :
          /\ call' = Call("mountAuthStatusBadge",
                          getStoredUser(localStorage).value, NULL, NULL, <<>>)
          /\ ret' = mountAuthStatusBadge(hasContainer, localStorage)
    /\ UNCHANGED <<storeVars, pageVars, authVars>>

NextCache ==
    \/ SetStoredUser
    \/ ClearStoredUser
    \/ GuardPageAccess
    \/ SessionGuardSettles
    \/ GateFeature
    \/ CreateTierChip
    \/ MountAuthStatusBadge

SpecCache == InitCache /\ [][NextCache]_vars

(***************************************************************************)
(* Properties of the entitlement model (checked under SpecEnt)              *)
(***************************************************************************)
\* Free=1 < Core=2 < Edge=3, stated apart from TIER_RANK
TierOrder(t) == CASE t = "free" -> 1 [] t = "core" -> 2 [] t = "edge" -> 3

\* the first tier field that is set, in the order planTier, tier, plan
FirstTierField(user) ==
    IF user = NoUser THEN NULL
    ELSE IF "planTier" \in DOMAIN user THEN user.planTier
    ELSE IF "tier" \in DOMAIN user THEN user.tier
    ELSE IF "plan" \in DOMAIN user THEN user.plan
    ELSE NULL

\* the tier a tier-field value stands for
NormalisedTier(v) ==
    CASE v \in {"edge", "strategic_edge", "strategic-edge"} -> "edge"
      [] v = "core" -> "core"
      [] OTHER -> "free"

\* C1 (as stated): for every user record without an identity marker,
\* isLoggedIn is false and getUserTier returns Free whatever its tier fields
\* hold.
C1_AnonymousIsFree ==
    /\ (call.fn = "isLoggedIn" /\ NoIdentity(call.user)) => ret = FALSE
    /\ (call.fn = "getUserTier" /\ NoIdentity(call.user)) => ret = "free"

\* C1 (amended): for every user record without an identity marker,
\* isLoggedIn is false; getUserTier does not look at the identity markers: it
\* returns the normalised value of the first tier field that is set
\* (planTier, tier, plan), and Free only when none is set or the value is not
\* a recognised tier.
C1_AnonymousTierIsTierField ==
    /\ (call.fn = "isLoggedIn" /\ NoIdentity(call.user)) => ret = FALSE
    /\ (call.fn = "getUserTier" /\ NoIdentity(call.user)) =>
           ret = NormalisedTier(FirstTierField(call.user))

C1_Witness ==
    /\ call.fn = "getUserTier"
    /\ call.user = [tier |-> "core"]
    /\ ret = "core"

\* C2: meetsTier(user, minTier): a null minTier yields true for every user;
\* a user without identity marker meets no non-null minTier; a logged-in
\* user meets a minTier in {free, core, edge} exactly when the rank of
\* getUserTier(user) is at least the rank of minTier.
C2_MeetsTier ==
    call.fn = "meetsTier" =>
        /\ call.minTier = NULL => ret = TRUE
        /\ (NoIdentity(call.user) /\ call.minTier /= NULL) => ret = FALSE
        /\ (~NoIdentity(call.user) /\ call.minTier \in {"free", "core", "edge"}) =>
               (ret = (TierOrder(NormalisedTier(FirstTierField(call.user)))
                          >= TierOrder(call.minTier)))

C2_Witness ==
    /\ call.fn = "meetsTier"
    /\ ~NoIdentity(call.user)
    /\ FirstTierField(call.user) = "core"
    /\ call.minTier = "edge"
    /\ ret = FALSE

\* p equals s or is a prefix of s
IsPrefixOf(p, s) == \E k \in 0..Len(s) : p = SubSeq(s, 1, k)

\* the indices of the ROUTE_POLICY entries that match a path
MatchingEntries(pathname) ==
    {i \in 1..Len(ROUTE_POLICY) : IsPrefixOf(ROUTE_POLICY[i].match, pathname)}

\* C3: getRoutePolicy(path) returns a matching entry than which no matching
\* entry has a strictly longer match string, and returns none only when no
\* entry matches; /tools/framework-1 resolves to the Core policy
\* /tools/framework-.
C3_LongestPrefixWins ==
    call.fn = "getRoutePolicy" =>
        LET M == MatchingEntries(call.pathname)
        IN  /\ (ret = NoPolicy) <=> (M = {})
            /\ M /= {} =>
                  /\ \E i \in M : ret = ROUTE_POLICY[i]
                  /\ \A i \in M : Len(ROUTE_POLICY[i].match) <= Len(ret.match)
            /\ call.pathname = P_tools_framework_1 =>
                  /\ ret.minTier = "core"
                  /\ ret.match = SubSeq(P_tools_framework_1, 1, Len(P_tools_framework_1) - 1)

C3_Witness ==
    /\ call.fn = "getRoutePolicy"
    /\ call.pathname = P_tools_framework_1
    /\ ret /= NoPolicy
    /\ Cardinality(MatchingEntries(call.pathname)) > 1
    /\ ret.minTier = "core"

\* the minimum tier of the longest matching entry (the entries are distinct,
\* so the longest match is unique)
LongestMatchMinTier(pathname) ==
    LET M == MatchingEntries(pathname)
        best == CHOOSE i \in M :
                    \A j \in M : Len(ROUTE_POLICY[j].match) <= Len(ROUTE_POLICY[i].match)
    IN  ROUTE_POLICY[best].minTier

\* meetsTier as the specification words it, for the minimum tiers of the table
MeetsAsSpecified(user, minTier) ==
    \/ minTier = NULL
    \/ /\ ~NoIdentity(user)
       /\ TierOrder(NormalisedTier(FirstTierField(user))) >= TierOrder(minTier)

\* C4: canAccessRoute(user, path) is true when no route policy matches the
\* path and otherwise equals meetsTier(user, minTier) for the selected
\* policy; a path whose selected policy has a null minTier is accessible to
\* anonymous users.
C4_CanAccessRoute ==
    call.fn = "canAccessRoute" =>
        IF MatchingEntries(call.pathname) = {}
        THEN ret = TRUE
        ELSE /\ ret = MeetsAsSpecified(call.user, LongestMatchMinTier(call.pathname))
             /\ (LongestMatchMinTier(call.pathname) = NULL /\ NoIdentity(call.user))
                    => ret = TRUE

C4_Witness ==
    /\ call.fn = "canAccessRoute"
    /\ MatchingEntries(call.pathname) = {}
    /\ call.pathname /= <<>>
    /\ NoIdentity(call.user)
    /\ ret = TRUE

\* the two lock conditions that may hold together
TierNotMet(c) == c.minTier /= NULL /\ ~meetsTier(c.user, c.minTier)
NotEntitled(c) == c.featureKey /= NULL /\ c.featureKey \notin getEntitlements(c.user)

\* C5: getLockStateForFeature decides by the first applicable rule:
\* (a) not logged in -> sign_in_required; (b) minTier given and not met ->
\* upgrade_required with requiredTier = minTier and currentTier = the user's
\* tier; (c) feature given and not entitled -> not_entitled; (d) unlocked.
\* An anonymous user always gets sign_in_required; when (b) and (c) both
\* apply the reason is upgrade_required.
C5_LockPrecedence ==
    call.fn = "getLockStateForFeature" =>
        /\ NoIdentity(call.user) =>
              ret.locked /\ ret.reason = "sign_in_required"
        /\ (~NoIdentity(call.user) /\ TierNotMet(call)) =>
              /\ ret.locked /\ ret.reason = "upgrade_required"
              /\ ret.requiredTier = call.minTier
              /\ ret.currentTier = NormalisedTier(FirstTierField(call.user))
        /\ (~NoIdentity(call.user) /\ ~TierNotMet(call) /\ NotEntitled(call)) =>
              ret.locked /\ ret.reason = "not_entitled"
        /\ (~NoIdentity(call.user) /\ ~TierNotMet(call) /\ ~NotEntitled(call)) =>
              ~ret.locked

C5_Witness ==
    /\ call.fn = "getLockStateForFeature"
    /\ ~NoIdentity(call.user)
    /\ TierNotMet(call)
    /\ NotEntitled(call)
    /\ ret.reason = "upgrade_required"

\* C6 (as stated): for the user record {tier: "core"} and the feature
\* situation_simulator with no minTier, the lock state is locked,
\* not_entitled, requiredTier edge, currentTier core.
C6_CoreUserSimulator ==
    (/\ call.fn = "getLockStateForFeature"
     /\ call.user = [tier |-> "core"]
     /\ call.featureKey = FEATURES.SITUATION_SIMULATOR
     /\ call.minTier = NULL) =>
        /\ ret.locked
        /\ ret.reason = "not_entitled"
        /\ ret.requiredTier = "edge"
        /\ ret.currentTier = "core"

\* C6 (amended): for the signed-in user record {id: "u1", tier: "core"} and
\* the feature situation_simulator with no minTier, the lock state is locked,
\* not_entitled, requiredTier edge, currentTier core; for the record
\* {tier: "core"}, which carries no identity marker, it is locked with reason
\* sign_in_required and no required or current tier.
C6_SignedInCoreUserSimulator ==
    (/\ call.fn = "getLockStateForFeature"
     /\ call.featureKey = FEATURES.SITUATION_SIMULATOR
     /\ call.minTier = NULL) =>
        /\ call.user = [id |-> "u1", tier |-> "core"] =>
              /\ ret.locked
              /\ ret.reason = "not_entitled"
              /\ ret.requiredTier = "edge"
              /\ ret.currentTier = "core"
        /\ call.user = [tier |-> "core"] =>
              /\ ret.locked
              /\ ret.reason = "sign_in_required"
              /\ ret.requiredTier = NULL
              /\ ret.currentTier = NULL

C6_Witness ==
    /\ call.fn = "getLockStateForFeature"
    /\ call.user = [id |-> "u1", tier |-> "core"]
    /\ call.featureKey = FEATURES.SITUATION_SIMULATOR
    /\ call.minTier = NULL
    /\ ret.reason = "not_entitled"

ProfileIsMalformed ==
    \/ ~hasItem(localStorage, STORAGE_KEY)
    \/ localStorage[STORAGE_KEY] \in MalformedProfiles

\* every decision taken for `user` is the one for an anonymous Free caller
DecidesAnonymousFree(user) ==
    /\ ~isLoggedIn(user)
    /\ getUserTier(user) = "free"
    /\ \A p \in Paths :
          canAccessRoute(user, p) =
              (MatchingEntries(p) = {} \/ LongestMatchMinTier(p) = NULL)
    /\ \A f \in FeatureKeys, m \in MinTiers :
          LET lock == getLockStateForFeature(user, f, m)
          IN  lock.locked /\ lock.reason = "sign_in_required"

\* C8: when the profile key is absent, unparseable or parses to a
\* non-object, getStoredUser() returns no user without raising, and
\* isLoggedIn, getUserTier, canAccessRoute and getLockStateForFeature treat
\* the caller as anonymous with tier Free.
C8_MalformedProfileIsAnonymous ==
    (got /= NotRead /\ ProfileIsMalformed) =>
        /\ got = Return(NoUser)
        /\ DecidesAnonymousFree(got.value)

C8_Witness ==
    /\ hasItem(localStorage, STORAGE_KEY)
    /\ localStorage[STORAGE_KEY] = <<TBegin, TKey("id"), TStr("u1")>>
    /\ got = Return(NoUser)
    /\ DecidesAnonymousFree(got.value)

(***************************************************************************)
(* Properties of the page guard (checked under SpecGuard)                   *)
(***************************************************************************)
\* the guard has redirected to `path` carrying `returnTo`
RedirectsTo(path, returnTo) ==
    /\ guard = "redirecting"
    /\ startsWith(href, path \o <<"?">>)
    /\ searchParamsGetReturnTo(href) = returnTo

\* where a decided guard stands for the user and path it was called with
GuardOutcome(permitted) ==
    guard /= "unchecked" =>
        /\ guard \in {"allowed", "redirecting"}
        /\ (guard = "allowed") <=> permitted
        /\ guard = "allowed" => href = NoNav
        /\ guard = "redirecting" =>
              IF isLoggedIn(guardCall.user)
              THEN RedirectsTo(P_pricing, guardCall.pathname)
              ELSE RedirectsTo(P_sign_in, guardCall.pathname)
        /\ (NoIdentity(guardCall.user) /\ guardCall.pathname = P_edge_briefing
                /\ guardCall.enforceRoutePolicy) =>
              RedirectsTo(P_sign_in, P_edge_briefing)

\* allowed and redirecting are terminal: no further transition, no retry
GuardIsTerminal ==
    guard /= "unchecked" => (guard' = guard /\ href' = href)

\* C9 (as stated): from unchecked, guardPageAccess moves to allowed exactly
\* when canAccessRoute(user, path) holds and otherwise to redirecting, to
\* sign-in for a user who is not logged in and to pricing for one who is,
\* carrying the path as returnTo; allowed and redirecting are terminal; an
\* anonymous user on /edge/briefing ends redirecting to sign-in with return
\* path /edge/briefing.
C9_GuardFollowsRoutePolicy ==
    /\ [](GuardOutcome(canAccessRoute(guardCall.user, guardCall.pathname)))
    /\ [][GuardIsTerminal]_vars

\* C9 (amended): the same, with the guard moving to allowed exactly when
\* canAccessRoute(user, path) holds or the caller switched enforcement off
\* (enforceRoutePolicy false; it is true by default).
C9_GuardFollowsEnforcedRoutePolicy ==
    /\ [](GuardOutcome(\/ ~guardCall.enforceRoutePolicy
                       \/ canAccessRoute(guardCall.user, guardCall.pathname)))
    /\ [][GuardIsTerminal]_vars

C9_Witness ==
    /\ NoIdentity(guardCall.user)
    /\ location.pathname = P_edge_briefing
    /\ guardCall.pathname = P_edge_briefing
    /\ ~canAccessRoute(guardCall.user, guardCall.pathname)
    /\ RedirectsTo(P_sign_in, P_edge_briefing)

(***************************************************************************)
(* Properties of the return path (checked under SpecAuth)                   *)
(***************************************************************************)
\* the return path the visit of the sign-in page began with: the one the
\* first successful sign-in found (none when it fell back to index.html)
CarriedReturnPath ==
    IF navLog[1].query /= <<>> THEN navLog[1].query ELSE navLog[1].stored

\* C10: the path stored by a guard redirect is consumed exactly once after a
\* successful sign-in and then cleared: a successful handleSignIn navigates
\* to the carried return path (the returnTo query parameter, else the
\* stored returnTo, else index.html), afterwards the stored returnTo is
\* absent, and a later successful sign-in without a new guard redirect does
\* not navigate to the old path, so that the sign-in ends on the carried
\* path under every interleaving of the handlers of submit and click.
C10_ReturnPathConsumedOnce ==
    navLog /= <<>> =>
        /\ \A j \in 1..Len(navLog) :
              navLog[j].to = IF navLog[j].query /= <<>> THEN navLog[j].query
                             ELSE IF navLog[j].stored /= <<>> THEN navLog[j].stored
                             ELSE P_index_html
        /\ ~hasItem(localStorage, RETURN_KEY)
        /\ CarriedReturnPath /= <<>> =>
              /\ \A j \in 2..Len(navLog) : navLog[j].to /= CarriedReturnPath
              /\ href = CarriedReturnPath

(***************************************************************************)
(* Properties of the session guard (checked under SpecAuth)                 *)
(***************************************************************************)
\* getSession of the protected page settled without a session: with an
\* error result, with no session, or by rejecting
SessionCheckFailed ==
    /\ location.pathname \in ProtectedPaths
    /\ guard \in {"redirecting", "unguarded"}

\* C11: whenever the getSession call of a protected page returns an error,
\* rejects or returns no session, the guard has stored the attempted path
\* (pathname plus query) as returnTo and is redirecting to sign-in.html;
\* the page is left displayed only after getSession returned a session.
C11_FailedSessionCheckRedirects ==
    SessionCheckFailed =>
        /\ href = P_sign_in_html
        /\ getItem(localStorage, RETURN_KEY) = location.pathname \o location.search

(***************************************************************************)
(* Properties of unknown identifiers and of the default sets (checked under *)
(* SpecEnt)                                                                 *)
(***************************************************************************)
\* the tier-field values getUserTier recognises
RecognisedTierValues == {"free", "core", "edge", "strategic_edge", "strategic-edge"}

\* the user has no explicit entitlement override: no entitlements array, or
\* an empty one
NoOverride(user) ==
    user = NoUser \/ "entitlements" \notin DOMAIN user \/ user.entitlements = <<>>

\* a non-null minimum tier that is not a recognised tier, asked of a
\* logged-in user
UnknownMinTierOfLoggedIn(user, minTier) ==
    /\ ~NoIdentity(user)
    /\ minTier /= NULL
    /\ minTier \notin {"free", "core", "edge"}

\* C12: unknown identifiers get the most restrictive interpretation: a user
\* whose tier field is not a recognised tier is Free; hasFeature is false
\* for a feature identifier outside the known set when the user has no
\* explicit override; for a logged-in user a non-null minimum tier that is
\* not a recognised tier is not met: meetsTier is false, canAccessRoute is
\* false and the lock state is locked.
C12_UnknownIsMostRestrictive ==
    /\ (call.fn = "getUserTier"
            /\ FirstTierField(call.user) \notin RecognisedTierValues) =>
           ret = "free"
    /\ (call.fn = "hasFeature" /\ call.featureKey \notin AllFeatures
            /\ NoOverride(call.user)) =>
           ret = FALSE
    /\ (call.fn = "meetsTier"
            /\ UnknownMinTierOfLoggedIn(call.user, call.minTier)) =>
           ret = FALSE
    /\ (call.fn = "canAccessRoute" /\ MatchingEntries(call.pathname) /= {}
            /\ UnknownMinTierOfLoggedIn(call.user,
                                        LongestMatchMinTier(call.pathname))) =>
           ret = FALSE
    /\ (call.fn = "getLockStateForFeature"
            /\ UnknownMinTierOfLoggedIn(call.user, call.minTier)) =>
           ret.locked

\* C13: Edge's default feature set is a superset of Core's and Core's of
\* Free's, so for two users without explicit entitlement override of whom
\* one has the higher-ranked tier, every feature for which hasFeature is
\* true for the lower-tier user is also true for the higher-tier user.
C13_DefaultSetsMonotone ==
    (call.fn = "hasFeature" /\ NoOverride(call.user) /\ ret = TRUE) =>
        /\ DEFAULT_ENTITLEMENTS.free \subseteq DEFAULT_ENTITLEMENTS.core
        /\ DEFAULT_ENTITLEMENTS.core \subseteq DEFAULT_ENTITLEMENTS.edge
        /\ \A higher \in Users :
              (NoOverride(higher)
                  /\ TierOrder(getUserTier(higher))
                        > TierOrder(getUserTier(call.user))) =>
                 hasFeature(higher, call.featureKey)

C13_Witness ==
    /\ call.fn = "hasFeature"
    /\ NoOverride(call.user)
    /\ getUserTier(call.user) = "core"
    /\ call.featureKey = FEATURES.STRATEGY_JOURNAL
    /\ ret = TRUE
    /\ \E higher \in Users : NoOverride(higher) /\ getUserTier(higher) = "edge"

(***************************************************************************)
(* Properties of the sign-in page handlers (checked under SpecAuth)         *)
(***************************************************************************)
\* the provider call of handler h failed: an error result or a rejection
AuthFailed(h) == h.result \in {"error", "rejected"}

\* a failed handler has alerted a text, and no handler has called the
\* provider more than once
FailedAuthHasAlerted ==
    \A i \in 1..Len(handlers) :
        /\ handlers[i].calls <= 1
        /\ AuthFailed(handlers[i]) =>
              /\ handlers[i].pc = "alerted"
              /\ handlers[i].alert /= NULL
              /\ handlers[i].calls = 1

\* a step of the page leaves the provider calls of every handler already
\* started as they are, and the step in which a handler's call fails
\* assigns no location.href and leaves the stored return path as it is
FailedAuthStep ==
    \A i \in 1..Len(handlers) :
        i <= Len(handlers') =>
            /\ handlers'[i].calls = handlers[i].calls
            /\ (~AuthFailed(handlers[i]) /\ AuthFailed(handlers'[i])) =>
                  /\ href' = href
                  /\ navLog' = navLog
                  /\ getItem(localStorage', RETURN_KEY)
                        = getItem(localStorage, RETURN_KEY)

\* C14: a failed explicit sign-in or sign-up ends with a visible message,
\* performs no navigation, leaves the stored return path unchanged and is
\* never retried: each submission causes at most one call to the identity
\* provider, and no further call happens until the user submits again.
C14_FailedAuthAlertsOnce ==
    []FailedAuthHasAlerted /\ [][FailedAuthStep]_vars

C14_Witness ==
    /\ Len(handlers) = 2
    /\ handlers[1].op = "signIn" /\ handlers[1].result = "error"
    /\ handlers[1].alert = MSG_SIGN_IN_FAILED
    /\ handlers[2].op = "signUp" /\ handlers[2].result = "error"
    /\ handlers[2].alert = "Invalid login credentials"
    /\ href = NoNav
    /\ getItem(localStorage, RETURN_KEY) = P_edge_briefing

(***************************************************************************)
(* Properties of the profile cache (checked under SpecCache)                *)
(***************************************************************************)
\* what the key tep_user holds: whether it is present, and its text
CachedProfile(storage) ==
    [present |-> hasItem(storage, STORAGE_KEY), raw |-> getItem(storage, STORAGE_KEY)]

\* the step is a page guard deciding or a UI function being called
DecisionStep ==
    \/ call' /= call
    \/ <<guard, guardCall, href>>' /= <<guard, guardCall, href>>

\* the step is a call of setStoredUser or clearStoredUser, and the key holds
\* what that call writes
WriterStep ==
    /\ lastWrite'.op \in {"set", "clear"}
    /\ CachedProfile(localStorage') =
          IF lastWrite'.op = "set" /\ lastWrite'.user /= NoUser
          THEN [present |-> TRUE, raw |-> JSONstringify(lastWrite'.user)]
          ELSE [present |-> FALSE, raw |-> <<>>]

\* C15: the cached profile (key tep_user) is written only by setStoredUser
\* and clearStoredUser: guardPageAccess, gateFeature, createTierChip,
\* mountAuthStatusBadge and the session guard, with the entitlement
\* functions they call, leave it unchanged, whether they allow or deny.
C15_ProfileCacheFrame ==
    [][ /\ DecisionStep =>
              CachedProfile(localStorage') = CachedProfile(localStorage)
        /\ CachedProfile(localStorage') /= CachedProfile(localStorage) =>
              WriterStep ]_vars

C15_Witness ==
    /\ call.fn = "gateFeature"
    /\ ret.value.allowed = FALSE
    /\ guard = "redirecting"
    /\ hasItem(localStorage, RETURN_KEY)
    /\ lastWrite = NoWrite
    /\ CachedProfile(localStorage).raw = JSONstringify([id |-> "u1", tier |-> "core"])

(***************************************************************************)
(* Properties of the lock state's tiers (checked under SpecEnt)             *)
(***************************************************************************)
\* the tiers whose default set contains the feature
TiersContaining(featureKey) ==
    {t \in DOMAIN DEFAULT_ENTITLEMENTS : featureKey \in DEFAULT_ENTITLEMENTS[t]}

\* the call returned a lock with reason upgrade_required or not_entitled
\* to a logged-in user without explicit entitlement override
UpgradeLockWithoutOverride ==
    /\ call.fn = "getLockStateForFeature"
    /\ ~NoIdentity(call.user)
    /\ NoOverride(call.user)
    /\ ret.locked
    /\ ret.reason \in {"upgrade_required", "not_entitled"}

\* C16: whenever getLockStateForFeature returns a lock with reason
\* upgrade_required or not_entitled for a logged-in user without explicit
\* entitlement override, the reported requiredTier ranks strictly above the
\* reported currentTier: the guessed required tier of a feature is the
\* lowest tier whose default set contains it, and the lock never asks the
\* user to upgrade to a tier they already hold.
C16_RequiredTierAboveCurrent ==
    UpgradeLockWithoutOverride =>
        /\ RankOrZero(ret.requiredTier) > RankOrZero(ret.currentTier)
        /\ ret.reason = "not_entitled" =>
              /\ ret.requiredTier \in TiersContaining(call.featureKey)
              /\ \A t \in TiersContaining(call.featureKey) :
                    TierOrder(ret.requiredTier) <= TierOrder(t)

====
